---------------------------- MODULE Spec2Model ----------------------------
(***************************************************************************)
(* State-machine model of ndlife::life::Life<N> (src/src/life.rs): an      *)
(* infinite N-dimensional game of life kept as a sparse set of alive       *)
(* cells.  One action per public operation.  Coordinates are i64 in the    *)
(* source; here they are signed integers of CoordBits bits, so that the    *)
(* overflow of `alive_cell[i] + delta[i]` is reachable.  An overflowing    *)
(* addition panics when the crate is built with overflow checks (debug     *)
(* profile) and wraps otherwise (release profile); the profile is chosen   *)
(* in Init.                                                                *)
(***************************************************************************)
EXTENDS Integers, Sequences, FiniteSets, TLC

(***************************************************************************)
(* Bounds of the model.                                                    *)
(***************************************************************************)
\* Width in bits of a coordinate (stands for the 64 of i64).
CoordBits == 4
\* Dimensions N range over 0..MaxDim.
MaxDim == 2
\* next_generation is called at most MaxAge times in one behaviour.
MaxAge == 2
\* A submitted rule set holds at most MaxRuleLen values.
MaxRuleLen == 2
\* A submitted alive set holds at most MaxSeedLen cells.
MaxSeedLen == 2

VARIABLES
    N,                \* the const generic N of Life<N>
    overflow_checks,  \* build profile: TRUE = overflow panics, FALSE = wraps
    status,           \* "unbuilt" | "ok" | "err" (construction failed) | "panic"
    age,
    birth_rules,
    survival_rules,
    alive_cells,
    prev_alive,
    dead_neighbours,  \* function: key cell -> count
    call,             \* the last call made: operation and arguments
    ret,              \* what the last call returned
    calls             \* number of next_generation calls made so far

vars == <<N, overflow_checks, status, age, birth_rules, survival_rules,
          alive_cells, prev_alive, dead_neighbours, call, ret, calls>>

life == <<age, birth_rules, survival_rules, alive_cells, prev_alive,
          dead_neighbours>>

(***************************************************************************)
(* Integer helpers.                                                        *)
(***************************************************************************)
RECURSIVE Pow(_, _)
Pow(b, e) == IF e = 0 THEN 1 ELSE b * Pow(b, e - 1)

\* i64::MIN and i64::MAX at the model's width.
MinCoord == -Pow(2, CoordBits - 1)
MaxCoord == Pow(2, CoordBits - 1) - 1

\* Two's-complement wrapping of a sum (release profile).
Wrap(x) == ((x - MinCoord) % Pow(2, CoordBits)) + MinCoord

\* Whether x + d leaves the coordinate type.
Overflows(x, d) == x + d < MinCoord \/ x + d > MaxCoord

\* Life::<N>::MAX_NEIGHBOURS: 3usize.pow(N as u32) - 1; the first variant
\* has lost the - 1.
MaxNeighboursOffByOne(n) == Pow(3, n)
MAX_NEIGHBOURS(n) == Pow(3, n) - 1


(***************************************************************************)
(* Results of a call.  Every result is a record of the same shape:         *)
(* tag is "Ok", "ZeroDimension", "ZeroNeighbourBirthRule", "TooHighRule",  *)
(* "true", "false", "unit" (a call returning nothing), "panic" (the call   *)
(* unwound) or "none" (no call yet); value and max are the two fields of   *)
(* Error::TooHighRule and 0 otherwise.                                     *)
(***************************************************************************)
Result(tag) == [tag |-> tag, value |-> 0, max |-> 0]
TooHighRule(v, m) == [tag |-> "TooHighRule", value |-> v, max |-> m]
BoolResult(b) == Result(IF b THEN "true" ELSE "false")

\* The last call: operation, submitted rule sets, submitted cells, flag.
Call(op, b, s, c, f) ==
    [op |-> op, birth |-> b, survival |-> s, cells |-> c, state |-> f]

(***************************************************************************)
(* Rule validation (new_with_alive_cells, set_birth_rules,                 *)
(* set_survival_rules).  A HashSet is iterated in an arbitrary order, so   *)
(* the value a TooHighRule carries is any of the offending values of the   *)
(* first set that has one.                                                 *)
(***************************************************************************)
\* birth_rules.contains(&0); the first variant has lost the test.
ContainsZeroNever(rules) == FALSE
ContainsZero(rules) == 0 \in rules

\* *rule > Self::MAX_NEIGHBOURS; the first variant is off by one.
IsTooHighLax(rule, n) == rule > MAX_NEIGHBOURS(n) + 1
IsTooHigh(rule, n) == rule > MAX_NEIGHBOURS(n)

\* The values at which `for rule in rules.iter()` can return its error.
TooHighIn(rules, n) == {rule \in rules : IsTooHigh(rule, n)}

\* birth_rules.iter().chain(survival_rules.iter()): birth is scanned first.
\* The first variant chains the two sets the other way round.
ChainSurvivalFirst(b, s, n) ==
    IF TooHighIn(s, n) # {} THEN TooHighIn(s, n) ELSE TooHighIn(b, n)
ChainTooHigh(b, s, n) ==
    IF TooHighIn(b, n) # {} THEN TooHighIn(b, n) ELSE TooHighIn(s, n)

\* Err(Error::TooHighRule(*rule, Self::MAX_NEIGHBOURS)); the first variant
\* reports 3^N as the maximum.
TooHighErrorsOffByOne(values, n) == {TooHighRule(v, Pow(3, n)) : v \in values}
TooHighErrors(values, n) == {TooHighRule(v, MAX_NEIGHBOURS(n)) : v \in values}

\* The results new_with_alive_cells(b, s, _) can return for Life<n>.  Two
\* variants come first: one without the N == 0 test, one that scans for
\* too-high rules before it looks for a birth rule 0.
NewNoDimensionCheck(n, b, s) ==
    IF ContainsZero(b) THEN {Result("ZeroNeighbourBirthRule")}
    ELSE IF ChainTooHigh(b, s, n) # {}
         THEN TooHighErrors(ChainTooHigh(b, s, n), n)
    ELSE {Result("Ok")}
NewTooHighFirst(n, b, s) ==
    IF n = 0 THEN {Result("ZeroDimension")}
    ELSE IF ChainTooHigh(b, s, n) # {}
         THEN TooHighErrors(ChainTooHigh(b, s, n), n)
    ELSE IF ContainsZero(b) THEN {Result("ZeroNeighbourBirthRule")}
    ELSE {Result("Ok")}
NewResults(n, b, s) ==
    IF n = 0 THEN {Result("ZeroDimension")}
    ELSE IF ContainsZero(b) THEN {Result("ZeroNeighbourBirthRule")}
    ELSE IF ChainTooHigh(b, s, n) # {}
         THEN TooHighErrors(ChainTooHigh(b, s, n), n)
    ELSE {Result("Ok")}

\* The results set_birth_rules(b) can return.
SetBirthRulesResults(n, b) ==
    IF ContainsZero(b) THEN {Result("ZeroNeighbourBirthRule")}
    ELSE IF TooHighIn(b, n) # {} THEN TooHighErrors(TooHighIn(b, n), n)
    ELSE {Result("Ok")}

\* The results set_survival_rules(s) can return; the first variant treats
\* the survival rules as set_birth_rules treats the birth rules.
SetSurvivalRulesRejectsZero(n, s) ==
    IF ContainsZero(s) THEN {Result("ZeroNeighbourBirthRule")}
    ELSE IF TooHighIn(s, n) # {} THEN TooHighErrors(TooHighIn(s, n), n)
    ELSE {Result("Ok")}
SetSurvivalRulesResults(n, s) ==
    IF TooHighIn(s, n) # {} THEN TooHighErrors(TooHighIn(s, n), n)
    ELSE {Result("Ok")}

(***************************************************************************)
(* The neighbour offsets: the `deltas` closure of next_generation.  The    *)
(* iterator state is (ptr, deltas); indices are 0-based in the source and  *)
(* 1-based here, so deltas[ptr] of the source is d[ptr + 1].               *)
(***************************************************************************)
\* let mut deltas = [-1i64; N]; deltas[ptr] = -2;  (ptr = 0)
InitialDeltas(n) == [i \in 1..n |-> IF i = 1 THEN -2 ELSE -1]

\* deltas[ptr] += 1; deltas[0..ptr].fill(-1);
Advance(d, ptr) ==
    [i \in 1..Len(d) |-> IF i <= ptr THEN -1
                         ELSE IF i = ptr + 1 THEN d[i] + 1
                         ELSE d[i]]

\* The vectors the from_fn iterator yields from state (ptr, d), in order.
RECURSIVE FromFn(_, _, _)
FromFn(ptr, d, n) ==
    IF ptr >= n THEN << >>
    ELSE IF d[ptr + 1] = 1 THEN FromFn(ptr + 1, d, n)
    ELSE <<Advance(d, ptr)>> \o FromFn(0, Advance(d, ptr), n)

\* .filter(|deltas| deltas.iter().any(|&delta| delta != 0)); the first
\* variant has lost the filter.
NonZeroAlways(d) == TRUE
NonZero(d) == \E i \in 1..Len(d) : d[i] # 0

\* deltas(): the offsets of the Moore neighbourhood, in iteration order.
Deltas(n) == SelectSeq(FromFn(0, InitialDeltas(n), n), NonZero)

(***************************************************************************)
(* next_generation.                                                        *)
(***************************************************************************)
\* self.age += 1; the first variant has lost the increment.
AgeStuck(a) == a
AgeAfter(a) == a + 1

\* alive_cell[i] + delta[i] overflows for some i
AddOverflows(cell, delta) ==
    \E i \in 1..Len(cell) : Overflows(cell[i], delta[i])

\* std::array::from_fn(|i| alive_cell[i] + delta[i]) when nothing panics;
\* the first variant has lost the alive_cell[i].
NeighbourOfOrigin(cell, delta) == [i \in 1..Len(cell) |-> Wrap(delta[i])]
Neighbour(cell, delta) == [i \in 1..Len(cell) |-> Wrap(cell[i] + delta[i])]

EmptyTally == [k \in {} |-> 0]

\* *self.dead_neighbours.entry(neighbour).or_insert(0) += 1; the first
\* variant inserts the 0 and does not count the first sighting.
EntryLosesFirst(tally, k) ==
    IF k \in DOMAIN tally THEN [tally EXCEPT ![k] = @ + 1]
    ELSE [x \in (DOMAIN tally) \cup {k} |-> IF x = k THEN 0 ELSE tally[x]]
Entry(tally, k) ==
    IF k \in DOMAIN tally THEN [tally EXCEPT ![k] = @ + 1]
    ELSE [x \in (DOMAIN tally) \cup {k} |-> IF x = k THEN 1 ELSE tally[x]]

\* std::mem::swap(&mut self.alive_cells, &mut self.prev_alive): the pair
\* <<alive_cells, prev_alive>> after the swap.  The first variant has lost
\* the call.
SwapNothing(alive, prev) == <<alive, prev>>
Swap(alive, prev) == <<prev, alive>>

\* self.alive_cells.clear(); the first variant has lost the call.
KeepCells(cells) == cells
ClearCells(cells) == {}

\* self.dead_neighbours.clear(); the first variant has lost the call.
KeepTally(tally) == tally
ClearTally(tally) == EmptyTally

\* The working state of one call after the swap and the two clear() calls,
\* from the fields the call finds.  alive_neighbours is the local of the
\* closure; yielded is the position of the offset iterator in use (the
\* number of offsets it has yielded).
Cleared(alive, prev, tally) ==
    [alive_cells |-> ClearCells(Swap(alive, prev)[1]),
     prev_alive |-> Swap(alive, prev)[2],
     dead_neighbours |-> ClearTally(tally),
     alive_neighbours |-> 0,
     yielded |-> 0,
     panicked |-> FALSE]

\* deltas(): every call of the closure builds a new iterator (ptr = 0 and
\* a new array).  The first variant builds one iterator for all the cells.
CallDeltasOnce(acc) == acc
CallDeltas(acc) == [acc EXCEPT !.yielded = 0]

\* for delta in deltas() { ... } for one alive cell, from the position of
\* the iterator on.
RECURSIVE ScanDeltas(_, _, _, _, _)
ScanDeltas(cell, ds, acc, prev, checks) ==
    LET i == acc.yielded + 1
    IN  IF i > Len(ds) THEN acc
        ELSE IF checks /\ AddOverflows(cell, ds[i])
             THEN [acc EXCEPT !.panicked = TRUE]
        ELSE LET neighbour == Neighbour(cell, ds[i])
                 counted == IF neighbour \in prev
                            THEN [acc EXCEPT !.alive_neighbours = @ + 1,
                                             !.yielded = i]
                            ELSE [acc EXCEPT !.dead_neighbours =
                                                 Entry(@, neighbour),
                                             !.yielded = i]
             IN  IF counted.panicked THEN counted
                 ELSE ScanDeltas(cell, ds, counted, prev, checks)

\* if self.survival_rules.contains(&alive_neighbours) { insert }; the
\* first variant never inserts.
SurvivesNever(count, survival) == FALSE
Survives(count, survival) == count \in survival

\* The body of the for_each closure for one previously-alive cell; ds is
\* what an iterator of deltas() yields.
ProcessCell(cell, ds, acc, prev, survival, checks) ==
    LET r == ScanDeltas(cell, ds,
                        CallDeltas([acc EXCEPT !.alive_neighbours = 0]),
                        prev, checks)
    IN  IF r.panicked THEN r
        ELSE IF Survives(r.alive_neighbours, survival)
             THEN [r EXCEPT !.alive_cells = @ \cup {cell}]
        ELSE r

\* self.prev_alive.iter().for_each(...) over the cells of todo, none of
\* which panics.  The result does not depend on the iteration order.
RECURSIVE ForEach(_, _, _, _, _, _)
ForEach(todo, ds, acc, prev, survival, checks) ==
    IF todo = {} THEN acc
    ELSE LET cell == CHOOSE c \in todo : TRUE
             done == ProcessCell(cell, ds, acc, prev, survival, checks)
         IN  IF done.panicked THEN done
             ELSE ForEach(todo \ {cell}, ds, done, prev, survival, checks)

\* if self.birth_rules.contains(value)
IsBorn(count, birth) == count \in birth

\* for (key, value) in self.dead_neighbours.iter() { ... insert(*key) }
BirthPass(acc, birth) ==
    [acc EXCEPT !.alive_cells =
        @ \cup {k \in DOMAIN acc.dead_neighbours :
                   IsBorn(acc.dead_neighbours[k], birth)}]

\* The previously-alive cells whose scan panics under overflow checks.
PanickingCells(prev, ds, checks) ==
    {c \in prev : checks /\ \E i \in 1..Len(ds) : AddOverflows(c, ds[i])}

\* What a call leaves in the fields it writes.
Outcome(acc) == [alive_cells |-> acc.alive_cells,
                 prev_alive |-> acc.prev_alive,
                 dead_neighbours |-> acc.dead_neighbours,
                 panicked |-> acc.panicked]

\* The outcomes of a call of Life<n> that finds the fields alive, prev and
\* tally: the finished one, or, when some cell overflows under overflow
\* checks, the state at the panic.  The cells done before the panicking
\* one are any set of cells that do not panic (the HashSet's order is
\* arbitrary).
GenerationOutcomes(n, alive, prev, tally, birth, survival, checks) ==
    LET start == Cleared(alive, prev, tally)
        now == start.prev_alive
        ds == Deltas(n)
        bad == PanickingCells(now, ds, checks)
    IN  IF bad = {}
        THEN {Outcome(BirthPass(ForEach(now, ds, start, now, survival,
                                        checks), birth))}
        ELSE {Outcome(ProcessCell(c, ds,
                                  ForEach(done, ds, start, now, survival,
                                          checks),
                                  now, survival, checks)) :
                <<done, c>> \in (SUBSET (now \ bad)) \X bad}

(***************************************************************************)
(* Inputs of the calls.                                                    *)
(***************************************************************************)
SubsetsUpTo(S, k) == {x \in SUBSET S : Cardinality(x) <= k}

Origin(n) == [i \in 1..n |-> 0]
Corner(n) == [i \in 1..n |-> MaxCoord]

\* Rule values submitted: around 0 and around MAX_NEIGHBOURS.
RuleValues(n) ==
    {0, MAX_NEIGHBOURS(n), MAX_NEIGHBOURS(n) + 1, MAX_NEIGHBOURS(n) + 2}
RuleInputs(n) == SubsetsUpTo(RuleValues(n), MaxRuleLen)

\* Cells submitted: the origin and the cell at i64::MAX.
CellInputs(n) == {Origin(n), Corner(n)}
SeedInputs(n) == SubsetsUpTo(CellInputs(n), MaxSeedLen)

(***************************************************************************)
(* The state machine.                                                      *)
(***************************************************************************)
NoCall == Call("none", {}, {}, {}, FALSE)

Init ==
    /\ N \in 0..MaxDim
    /\ overflow_checks \in BOOLEAN
    /\ status = "unbuilt"
    /\ age = 0
    /\ birth_rules = {}
    /\ survival_rules = {}
    /\ alive_cells = {}
    /\ prev_alive = {}
    /\ dead_neighbours = EmptyTally
    /\ call = NoCall
    /\ ret = Result("none")
    /\ calls = 0

\* The body of new_with_alive_cells(b, s, a) without the alive set: the
\* cells handed in are dropped.
ConstructForgetsCells(b, s, a) ==
    /\ status = "unbuilt"
    /\ \E r \in NewResults(N, b, s) :
         /\ ret' = r
         /\ IF r.tag = "Ok"
            THEN /\ status' = "ok"
                 /\ age' = 0
                 /\ birth_rules' = b
                 /\ survival_rules' = s
                 /\ alive_cells' = {}
                 /\ prev_alive' = {}
                 /\ dead_neighbours' = EmptyTally
            ELSE /\ status' = "err"
                 /\ UNCHANGED life
    /\ UNCHANGED <<N, overflow_checks, calls>>

\* The body of new_with_alive_cells(b, s, a).
Construct(b, s, a) ==
    /\ status = "unbuilt"
    /\ \E r \in NewResults(N, b, s) :
         /\ ret' = r
         /\ IF r.tag = "Ok"
            THEN /\ status' = "ok"
                 /\ age' = 0
                 /\ birth_rules' = b
                 /\ survival_rules' = s
                 /\ alive_cells' = a
                 /\ prev_alive' = {}
                 /\ dead_neighbours' = EmptyTally
            ELSE /\ status' = "err"
                 /\ UNCHANGED life
    /\ UNCHANGED <<N, overflow_checks, calls>>

\* Life::new_with_alive_cells(b, s, a); Life::new(b, s) is the case a = {}.
New(b, s, a) ==
    /\ Construct(b, s, a)
    /\ call' = Call("new", b, s, a, FALSE)

\* conways_game_of_life(): Life::new([3], [2, 3]).unwrap(), a Life<2>.
ConwaysGameOfLife ==
    /\ N = 2
    /\ Construct({3}, {2, 3}, {})
    /\ call' = Call("conways_game_of_life", {}, {}, {}, FALSE)

\* set_birth_rules storing the set before it validates it.
SetBirthRulesEager(b) ==
    /\ status = "ok"
    /\ \E r \in SetBirthRulesResults(N, b) : ret' = r
    /\ birth_rules' = b
    /\ call' = Call("set_birth_rules", b, {}, {}, FALSE)
    /\ UNCHANGED <<N, overflow_checks, status, age, survival_rules,
                   alive_cells, prev_alive, dead_neighbours, calls>>

\* Life::set_birth_rules(b)
SetBirthRules(b) ==
    /\ status = "ok"
    /\ \E r \in SetBirthRulesResults(N, b) :
         /\ ret' = r
         /\ birth_rules' = IF r.tag = "Ok" THEN b ELSE birth_rules
    /\ call' = Call("set_birth_rules", b, {}, {}, FALSE)
    /\ UNCHANGED <<N, overflow_checks, status, age, survival_rules,
                   alive_cells, prev_alive, dead_neighbours, calls>>

\* Life::set_survival_rules(s)
SetSurvivalRules(s) ==
    /\ status = "ok"
    /\ \E r \in SetSurvivalRulesResults(N, s) :
         /\ ret' = r
         /\ survival_rules' = IF r.tag = "Ok" THEN s ELSE survival_rules
    /\ call' = Call("set_survival_rules", {}, s, {}, FALSE)
    /\ UNCHANGED <<N, overflow_checks, status, age, birth_rules,
                   alive_cells, prev_alive, dead_neighbours, calls>>

\* set_alive_cells emptying the previous-alive buffer as well.
SetAliveCellsClearsBuffer(a) ==
    /\ status = "ok"
    /\ alive_cells' = a
    /\ prev_alive' = {}
    /\ ret' = Result("unit")
    /\ call' = Call("set_alive_cells", {}, {}, a, FALSE)
    /\ UNCHANGED <<N, overflow_checks, status, age, birth_rules,
                   survival_rules, dead_neighbours, calls>>

\* Life::set_alive_cells(a)
SetAliveCells(a) ==
    /\ status = "ok"
    /\ alive_cells' = a
    /\ ret' = Result("unit")
    /\ call' = Call("set_alive_cells", {}, {}, a, FALSE)
    /\ UNCHANGED <<N, overflow_checks, status, age, birth_rules,
                   survival_rules, prev_alive, dead_neighbours, calls>>

\* Life::get_cell(cell): self.alive_cells.contains(cell)
get_cell(cell) == cell \in alive_cells

\* set_cell reporting whether the cell was alive, whatever state is.
SetCellReportsAlive(c, state) ==
    /\ status = "ok"
    /\ alive_cells' = IF state THEN alive_cells \cup {c} ELSE alive_cells \ {c}
    /\ ret' = BoolResult(c \in alive_cells)
    /\ call' = Call("set_cell", {}, {}, {c}, state)
    /\ UNCHANGED <<N, overflow_checks, status, age, birth_rules,
                   survival_rules, prev_alive, dead_neighbours, calls>>

\* Life::set_cell(c, state): HashSet::insert / HashSet::remove
SetCell(c, state) ==
    /\ status = "ok"
    /\ alive_cells' = IF state THEN alive_cells \cup {c} ELSE alive_cells \ {c}
    /\ ret' = BoolResult(IF state THEN c \notin alive_cells
                                  ELSE c \in alive_cells)
    /\ call' = Call("set_cell", {}, {}, {c}, state)
    /\ UNCHANGED <<N, overflow_checks, status, age, birth_rules,
                   survival_rules, prev_alive, dead_neighbours, calls>>

\* if !self.alive_cells.remove(cell) { self.alive_cells.insert(*cell); }
\* The first variant inserts the cell whether or not it was removed.
ToggleInserts(cells, c) == cells \cup {c}
Toggle(cells, c) == IF c \in cells THEN cells \ {c} ELSE cells \cup {c}

\* Life::toggle_cell(c)
ToggleCell(c) ==
    /\ status = "ok"
    /\ alive_cells' = Toggle(alive_cells, c)
    /\ ret' = Result("unit")
    /\ call' = Call("toggle_cell", {}, {}, {c}, FALSE)
    /\ UNCHANGED <<N, overflow_checks, status, age, birth_rules,
                   survival_rules, prev_alive, dead_neighbours, calls>>

\* The body of Life::next_generation().
Generation ==
    /\ status = "ok"
    /\ age' = AgeAfter(age)
    /\ \E out \in GenerationOutcomes(N, alive_cells, prev_alive,
                                     dead_neighbours, birth_rules,
                                     survival_rules, overflow_checks) :
         /\ alive_cells' = out.alive_cells
         /\ prev_alive' = out.prev_alive
         /\ dead_neighbours' = out.dead_neighbours
         /\ status' = IF out.panicked THEN "panic" ELSE "ok"
         /\ ret' = Result(IF out.panicked THEN "panic" ELSE "unit")
    /\ calls' = calls + 1
    /\ UNCHANGED <<N, overflow_checks, birth_rules, survival_rules>>

\* Life::next_generation(), called by the client.
NextGeneration ==
    /\ Generation
    /\ call' = Call("next_generation", {}, {}, {}, FALSE)

\* An iteration of a HashSet: its elements once each.  The order is
\* arbitrary in the source; no claim depends on the one chosen here.
RECURSIVE Iter(_)
Iter(set) ==
    IF set = {} THEN << >>
    ELSE LET x == CHOOSE y \in set : TRUE
         IN  <<x>> \o Iter(set \ {x})

\* a.difference(b): the elements of a.iter() that b does not contain.
Difference(a, b) == SelectSeq(Iter(a), LAMBDA x : x \notin b)

\* a.symmetric_difference(b): a.difference(b).chain(b.difference(a)); the
\* first variant has lost the second half of the chain.
SymmetricDifferenceOneWay(a, b) == Difference(a, b)
SymmetricDifference(a, b) == Difference(a, b) \o Difference(b, a)

\* Life::changed_cells(): what the returned iterator yields.
changed_cells == SymmetricDifference(prev_alive, alive_cells)

Next ==
    \/ \E b \in RuleInputs(N), s \in RuleInputs(N), a \in SeedInputs(N) :
         New(b, s, a)
    \/ ConwaysGameOfLife
    \/ \E b \in RuleInputs(N) : SetBirthRules(b)
    \/ \E s \in RuleInputs(N) : SetSurvivalRules(s)
    \/ \E a \in SeedInputs(N) : SetAliveCells(a)
    \/ \E c \in CellInputs(N), state \in BOOLEAN : SetCell(c, state)
    \/ \E c \in CellInputs(N) : ToggleCell(c)
    \/ calls < MaxAge /\ NextGeneration

Spec == Init /\ [][Next]_vars

(***************************************************************************)
(* A second specification for the generation step alone: Init is any       *)
(* state a successful construction can give (valid rules, a seed), and     *)
(* the only operation is next_generation.                                  *)
(***************************************************************************)
\* Rule values of the seeds: 0..MaxStepRule, as far as they are valid.
MaxStepRule == 2
\* next_generation is called at most MaxStepAge times from a seed.
MaxStepAge == 2
\* next_generation is called on alive sets of at most MaxStepAlive cells.
MaxStepAlive == 6
\* The dimensions N of the seeds.
StepDims == {1, 2}

Min(a, b) == IF a < b THEN a ELSE b

StepBirthInputs(n) == SUBSET (1..Min(MaxStepRule, MAX_NEIGHBOURS(n)))
StepSurvivalInputs(n) == SUBSET (0..Min(MaxStepRule, MAX_NEIGHBOURS(n)))

\* Seed cells: the unit cube at the origin and the cell at i64::MAX.
StepCells(n) == [1..n -> {0, 1}] \cup {Corner(n)}
StepSeeds(n) == SubsetsUpTo(StepCells(n), MaxSeedLen)

InitStep ==
    /\ N \in StepDims
    /\ overflow_checks \in BOOLEAN
    /\ status = "ok"
    /\ age = 0
    /\ birth_rules \in StepBirthInputs(N)
    /\ survival_rules \in StepSurvivalInputs(N)
    /\ alive_cells \in StepSeeds(N)
    /\ prev_alive = {}
    /\ dead_neighbours = EmptyTally
    /\ call = Call("new", birth_rules, survival_rules, alive_cells, FALSE)
    /\ ret = Result("Ok")
    /\ calls = 0

NextStep ==
    /\ calls < MaxStepAge
    /\ Cardinality(alive_cells) <= MaxStepAlive
    /\ NextGeneration

SpecStep == InitStep /\ [][NextStep]_vars

(***************************************************************************)
(* A third specification for the shape tests: test_shape(initial_state,    *)
(* final_state, rounds) of tests/shapes.rs builds conways_game_of_life(),  *)
(* sets the alive cells and calls next_generation rounds times.  Init is   *)
(* the state at the entry of the loop; call holds the test_shape call in   *)
(* progress, with its seed.                                                *)
(***************************************************************************)
Block == {<<0, 0>>, <<0, 1>>, <<1, 0>>, <<1, 1>>}
Blinker == {<<0, 0>>, <<0, 1>>, <<0, 2>>}
Glider == {<<0, 0>>, <<1, 0>>, <<2, 0>>, <<2, 1>>, <<1, 2>>}

\* The rounds the tests run the shapes for.
BlockRounds == 100
BlinkerRounds == 2
GliderRounds == 12

Shapes == {[seed |-> Block, rounds |-> BlockRounds],
           [seed |-> Blinker, rounds |-> BlinkerRounds],
           [seed |-> Glider, rounds |-> GliderRounds]}

\* The rounds parameter of the test_shape call on seed.
Rounds(seed) == (CHOOSE shape \in Shapes : shape.seed = seed).rounds

InitShapes ==
    /\ N = 2
    /\ overflow_checks \in BOOLEAN
    /\ status = "ok"
    /\ age = 0
    /\ birth_rules = {3}
    /\ survival_rules = {2, 3}
    /\ alive_cells \in {shape.seed : shape \in Shapes}
    /\ prev_alive = {}
    /\ dead_neighbours = EmptyTally
    /\ call = Call("test_shape", {}, {}, alive_cells, FALSE)
    /\ ret = Result("unit")
    /\ calls = 0

\* (0..rounds).for_each(|_| life.next_generation())
ShapeRound ==
    /\ calls < Rounds(call.cells)
    /\ Generation
    /\ UNCHANGED call

SpecShapes == InitShapes /\ [][ShapeRound]_vars

(***************************************************************************)
(* The reference automaton on the infinite grid Z^N.                       *)
(***************************************************************************)
Abs(x) == IF x < 0 THEN -x ELSE x

\* c and d are distinct cells whose coordinates differ by at most 1.
MooreAdjacent(c, d) ==
    /\ c # d
    /\ \A i \in 1..Len(c) : Abs(c[i] - d[i]) <= 1

\* Number of Moore neighbours of c in A.
MooreCount(c, A) == Cardinality({a \in A : MooreAdjacent(c, a)})

\* The automaton's rule for cell c.
ReferenceAlive(c, A, birth, survival) ==
    IF c \in A THEN MooreCount(c, A) \in survival
               ELSE MooreCount(c, A) \in birth

\* The cells of Z^N that are representable or next to a representable one.
\* A cell farther out has no neighbour in any set of representable cells.
GridCells(n) == [1..n -> (MinCoord - 1)..(MaxCoord + 1)]

\* A step of the model is a call of next_generation that returned.
GenerationReturned == calls' = calls + 1 /\ status' = "ok"

\* No alive cell has a coordinate at i64::MIN or i64::MAX.
InRange(A) == \A c \in A : \A i \in 1..Len(c) : c[i] \notin {MinCoord, MaxCoord}

(***************************************************************************)
(* C1: after one next_generation call a cell is alive iff the reference    *)
(* rule makes it alive: it was alive and its number of alive Moore         *)
(* neighbours is a survival rule, or it was dead and that number is a      *)
(* birth rule.  Stated for every alive set, as the claim is.               *)
(***************************************************************************)
C1_StepIsReference ==
    [][GenerationReturned =>
         \A c \in GridCells(N) :
            (c \in alive_cells') <=>
               ReferenceAlive(c, alive_cells, birth_rules, survival_rules)]_vars

\* The same for alive sets that stay clear of i64::MIN and i64::MAX.
StepIsReferenceInRange ==
    [][(GenerationReturned /\ InRange(alive_cells)) =>
         \A c \in GridCells(N) :
            (c \in alive_cells') <=>
               ReferenceAlive(c, alive_cells, birth_rules, survival_rules)]_vars

(***************************************************************************)
(* Claims about the rules.  They are checked under Spec.                   *)
(***************************************************************************)
\* 3^N - 1, written out as the claims write it.
MaxRule == Pow(3, N) - 1

TooHighValues(rules) == {v \in rules : v > MaxRule}

RuleSetters == {"set_birth_rules", "set_survival_rules"}

(***************************************************************************)
(* C2: in every state reachable from a successful construction by any      *)
(* sequence of calls, successful or failing, the stored birth rules do     *)
(* not contain 0.                                                          *)
(***************************************************************************)
C2_NoZeroBirthRule == status \in {"ok", "panic"} => 0 \notin birth_rules

\* A set holding 0 was submitted to a built Life holding birth rules.
C2_Witness ==
    /\ status = "ok"
    /\ call.op = "set_birth_rules"
    /\ 0 \in call.birth
    /\ birth_rules # {}

(***************************************************************************)
(* C3: in every state reachable from a successful construction, every      *)
(* stored birth rule and every stored survival rule is at most 3^N - 1.    *)
(***************************************************************************)
C3_RulesAtMostMax ==
    status \in {"ok", "panic"} =>
        \A v \in birth_rules \cup survival_rules : v <= MaxRule

\* Both stored sets hold the maximum itself, and a too-high set was refused.
C3_Witness ==
    /\ status = "ok"
    /\ MaxRule \in birth_rules
    /\ MaxRule \in survival_rules
    /\ call.op \in RuleSetters
    /\ TooHighValues(call.birth \cup call.survival) # {}

(***************************************************************************)
(* C4: when set_birth_rules or set_survival_rules returns an error, age,   *)
(* birth rules, survival rules, alive cells, the previous-alive buffer     *)
(* and the tally are what they were before the call.                       *)
(***************************************************************************)
C4_FailedSetterKeepsState ==
    [][(call'.op \in RuleSetters /\ ret'.tag # "Ok") => UNCHANGED life]_vars

\* A setter failed on a Life that holds rules, cells and a history.
C4_Witness ==
    /\ call.op \in RuleSetters
    /\ ret.tag \in {"ZeroNeighbourBirthRule", "TooHighRule"}
    /\ birth_rules # {}
    /\ survival_rules # {}
    /\ alive_cells # {}
    /\ age > 0

(***************************************************************************)
(* C5: construction with N = 0 fails with ZeroDimension whatever the       *)
(* rules and the alive set are, also when the birth rules hold 0 or a      *)
(* rule is too high.                                                       *)
(***************************************************************************)
C5_ZeroDimensionFirst ==
    (N = 0 /\ call.op = "new") =>
        (ret = Result("ZeroDimension") /\ status = "err")

\* N = 0 with a birth rule 0 and a too-high survival rule.
C5_Witness ==
    /\ N = 0
    /\ call.op = "new"
    /\ 0 \in call.birth
    /\ TooHighValues(call.survival) # {}
    /\ call.cells # {}
    /\ ret.tag = "ZeroDimension"

(***************************************************************************)
(* C6, as claimed: construction, and set_birth_rules, with birth rules     *)
(* that contain 0 always fail with ZeroNeighbourBirthRule.                 *)
(***************************************************************************)
C6_ZeroRuleAlwaysReported ==
    (call.op \in {"new", "set_birth_rules"} /\ 0 \in call.birth) =>
        ret = Result("ZeroNeighbourBirthRule")

(***************************************************************************)
(* C6, amended: for N >= 1, construction, and set_birth_rules, with birth  *)
(* rules that contain 0 fail with ZeroNeighbourBirthRule, whatever the     *)
(* other values are (too-high ones included); for N = 0 construction       *)
(* fails with ZeroDimension instead.                                       *)
(***************************************************************************)
C6_ZeroRuleReported ==
    (call.op \in {"new", "set_birth_rules"} /\ 0 \in call.birth) =>
        ret = Result(IF N = 0 THEN "ZeroDimension"
                              ELSE "ZeroNeighbourBirthRule")

\* Construction with birth rules holding 0 and a too-high value, and
\* too-high survival rules.
C6_Witness ==
    /\ N >= 1
    /\ call.op = "new"
    /\ 0 \in call.birth
    /\ TooHighValues(call.birth) # {}
    /\ TooHighValues(call.survival) # {}
    /\ ret.tag = "ZeroNeighbourBirthRule"

(***************************************************************************)
(* C7, as claimed: construction, set_birth_rules and set_survival_rules    *)
(* with rules holding a value above 3^N - 1 fail with TooHighRule(v, m),   *)
(* v a submitted value above the maximum and m = 3^N - 1.                  *)
(***************************************************************************)
Submitted == call.birth \cup call.survival

C7_TooHighAlwaysReported ==
    (call.op \in {"new"} \cup RuleSetters /\ TooHighValues(Submitted) # {}) =>
        /\ ret.tag = "TooHighRule"
        /\ ret.value \in TooHighValues(Submitted)
        /\ ret.max = MaxRule

(***************************************************************************)
(* C7, amended: the same, unless N = 0 (construction fails with            *)
(* ZeroDimension) or the submitted birth rules contain 0 (construction     *)
(* and set_birth_rules fail with ZeroNeighbourBirthRule).                  *)
(***************************************************************************)
C7_TooHighReported ==
    (/\ call.op \in {"new"} \cup RuleSetters
     /\ TooHighValues(Submitted) # {}
     /\ N # 0
     /\ 0 \notin call.birth) =>
        /\ ret.tag = "TooHighRule"
        /\ ret.value \in TooHighValues(Submitted)
        /\ ret.max = MaxRule

\* TooHighRule(9, 8): N = 2 and 9 submitted beside a valid value.
C7_Witness ==
    /\ N = 2
    /\ call.op \in RuleSetters
    /\ 9 \in Submitted
    /\ Submitted \ TooHighValues(Submitted) # {}
    /\ ret = TooHighRule(9, 8)

C9_NextGenerationNeverFails ==
    call.op = "next_generation" =>
        /\ ret.tag = "unit"
        /\ \A c \in prev_alive : \A i \in 1..Len(Deltas(N)) :
              ~AddOverflows(c, Deltas(N)[i])

(***************************************************************************)
(* C10: age is 0 on construction and equals the number of next_generation  *)
(* calls made since, whatever other calls come in between: it increases    *)
(* by exactly 1 per call and never decreases.                              *)
(***************************************************************************)
C10_AgeCountsGenerations == age = calls

\* Two generations, then another operation.
C10_Witness ==
    /\ status = "ok"
    /\ calls = 2
    /\ age = 2
    /\ call.op \in {"set_cell", "toggle_cell", "set_alive_cells"} \cup RuleSetters

(***************************************************************************)
(* Claims about the generation step.  They are checked under SpecStep.     *)
(***************************************************************************)
\* The history of a Life no generation has run on.
FreshHistory == [prev_alive |-> {}, dead_neighbours |-> EmptyTally]

\* The alive sets a Life was run on before its alive set was replaced.
HistorySeeds(n) == {{c} : c \in [1..n -> {0, 1}]}

\* The previous-alive buffers and tallies of other Life states with the
\* rules birth and survival: a fresh one, and the ones a returned
\* generation over a set of HistorySeeds leaves behind.
Histories(n, birth, survival, checks) ==
    {FreshHistory} \cup
    {[prev_alive |-> o.prev_alive, dead_neighbours |-> o.dead_neighbours] :
        o \in {x \in UNION {GenerationOutcomes(n, seed, {}, EmptyTally,
                                               birth, survival, checks) :
                               seed \in HistorySeeds(n)} : ~x.panicked}}

(***************************************************************************)
(* C11: next_generation is deterministic in (alive set, birth rules,       *)
(* survival rules).  Whenever a call returns, a call on any other Life     *)
(* state with the same alive set and rules, but another previous-alive     *)
(* buffer and another tally (another history, so another age), returns     *)
(* too and leaves the same alive set.                                      *)
(***************************************************************************)
C11_HistoryIndependent ==
    [][GenerationReturned =>
         \A h \in Histories(N, birth_rules, survival_rules, overflow_checks) :
            \A out \in GenerationOutcomes(N, alive_cells, h.prev_alive,
                                          h.dead_neighbours, birth_rules,
                                          survival_rules, overflow_checks) :
               ~out.panicked /\ out.alive_cells = alive_cells']_vars

\* A second generation returned: the call found the buffer and the tally
\* of the first one, and changed the alive set.
C11_Witness ==
    /\ status = "ok"
    /\ calls = 2
    /\ prev_alive # {}
    /\ alive_cells # {}
    /\ alive_cells # prev_alive

(***************************************************************************)
(* C12: if the alive set is empty, it is still empty after any number of   *)
(* next_generation calls, for every valid rule configuration, survival     *)
(* rules that contain 0 included: every call made on an empty alive set    *)
(* returns and leaves the alive set empty.  Checked under Spec.            *)
(***************************************************************************)
C12_EmptyStaysEmpty ==
    [][(calls' = calls + 1 /\ alive_cells = {}) =>
          (alive_cells' = {} /\ status' = "ok")]_vars

\* The second call of a behaviour ran on the empty set, with a survival
\* rule 0 and a birth rule.
C12_Witness ==
    /\ call.op = "next_generation"
    /\ calls = 2
    /\ prev_alive = {}
    /\ alive_cells = {}
    /\ 0 \in survival_rules
    /\ birth_rules # {}

(***************************************************************************)
(* C13: set_cell(c, true) returns true exactly when c was not alive        *)
(* before the call, set_cell(c, false) returns true exactly when c was     *)
(* alive before the call, and an immediately repeated call with the same   *)
(* arguments returns false; after set_cell(c, s), get_cell(c) equals s.    *)
(* Checked under Spec.                                                     *)
(***************************************************************************)
C13_SetCellReportsChange ==
    [][call'.op = "set_cell" =>
         \A c \in call'.cells :
            /\ call'.state => (ret'.tag = "true" <=> ~get_cell(c))
            /\ ~call'.state => (ret'.tag = "true" <=> get_cell(c))
            /\ ret'.tag \in {"true", "false"}
            /\ call = call' => ret'.tag = "false"
            /\ get_cell(c)' = call'.state]_vars

\* set_cell(c, true) was called on a Life that has run a generation and
\* where c was alive already (as after a first set_cell(c, true)): false.
C13_Witness ==
    /\ call.op = "set_cell"
    /\ call.state
    /\ ret.tag = "false"
    /\ \A c \in call.cells : get_cell(c)
    /\ calls > 0

\* The elements of a sequence.
Range(seq) == {seq[i] : i \in 1..Len(seq)}

(***************************************************************************)
(* C14: called right after next_generation, changed_cells yields exactly   *)
(* the symmetric difference between the alive set before that call and     *)
(* the alive set after it: every cell that died or was born, each once,    *)
(* and no cell whose state did not change.  Checked under SpecStep.        *)
(***************************************************************************)
C14_ChangedCellsIsDifference ==
    [][calls' = calls + 1 =>
         LET yielded == SymmetricDifference(prev_alive', alive_cells')
         IN  /\ Range(yielded) = (alive_cells \ alive_cells') \cup
                                 (alive_cells' \ alive_cells)
             /\ Len(yielded) = Cardinality(Range(yielded))]_vars

\* A generation in which a cell died, a cell was born and a cell stayed
\* alive.
C14_Witness ==
    /\ status = "ok"
    /\ calls = 2
    /\ prev_alive \ alive_cells # {}
    /\ alive_cells \ prev_alive # {}
    /\ prev_alive \cap alive_cells # {}
    /\ Len(changed_cells) >= 2

(***************************************************************************)
(* Claims about the shapes.  They are checked under SpecShapes.            *)
(***************************************************************************)
\* The cells of a set moved by the vector v.
Translate(cells, v) == {[i \in 1..Len(c) |-> c[i] + v[i]] : c \in cells}

GliderAfter4 == {<<1, -1>>, <<2, -1>>, <<3, -1>>, <<3, 0>>, <<2, 1>>}
GliderAfter12 == {<<3, -3>>, <<4, -3>>, <<5, -3>>, <<5, -2>>, <<4, -1>>}
BlinkerAfter1 == {<<-1, 1>>, <<0, 1>>, <<1, 1>>}

(***************************************************************************)
(* C15: with the canonical 2-dimensional rules (birth {3}, survival        *)
(* {2, 3}) and the glider as seed, the alive set after 4 generations is    *)
(* {(1,-1), (2,-1), (3,-1), (3,0), (2,1)}, the glider translated by        *)
(* (+1,-1), and after 12 generations the seed translated by (+3,-3).       *)
(***************************************************************************)
C15_GliderTravels ==
    call.cells = Glider =>
        /\ calls = 4 => /\ status = "ok"
                        /\ alive_cells = GliderAfter4
                        /\ alive_cells = Translate(Glider, <<1, -1>>)
        /\ calls = 12 => /\ status = "ok"
                         /\ alive_cells = Translate(Glider, <<3, -3>>)

\* The glider after its 12 rounds, where test_next_generation expects it.
C15_Witness ==
    /\ call.cells = Glider
    /\ calls = 12
    /\ age = 12
    /\ alive_cells = GliderAfter12

(***************************************************************************)
(* C16: with the canonical 2-dimensional rules and the blinker as seed,    *)
(* the alive set after exactly 1 generation is {(-1,1), (0,1), (1,1)},     *)
(* which is not the seed, and after exactly 2 generations it is the seed   *)
(* again.                                                                  *)
(***************************************************************************)
C16_BlinkerOscillates ==
    call.cells = Blinker =>
        /\ calls = 1 => /\ status = "ok"
                        /\ alive_cells = BlinkerAfter1
                        /\ alive_cells # Blinker
        /\ calls = 2 => /\ status = "ok"
                        /\ alive_cells = Blinker

\* The blinker back at its seed, one round after it lay across.
C16_Witness ==
    /\ call.cells = Blinker
    /\ calls = 2
    /\ prev_alive = BlinkerAfter1
    /\ alive_cells = Blinker

(***************************************************************************)
(* C17: with the canonical 2-dimensional rules and the block as seed, the  *)
(* alive set equals the seed after every generation up to 100: the block   *)
(* is a fixed point of next_generation.                                    *)
(***************************************************************************)
C17_BlockIsStill ==
    (call.cells = Block /\ calls <= 100) =>
        (status = "ok" /\ alive_cells = Block)

\* The block after its 100 rounds.
C17_Witness ==
    /\ call.cells = Block
    /\ calls = 100
    /\ age = 100
    /\ prev_alive = Block
    /\ alive_cells = Block

(***************************************************************************)
(* C18: the maximum legal rule value MAX_NEIGHBOURS for dimension N        *)
(* equals 3^N - 1: 2 for N = 1, 8 for N = 2, 26 for N = 3.  It is the      *)
(* maximum a TooHighRule error reports, and a rule set passes the          *)
(* too-high test exactly when no value is above it.  Checked under Spec.   *)
(***************************************************************************)
MaxNeighboursClaimed == <<2, 8, 26>>

C18_MaxNeighboursValues ==
    /\ \A n \in 1..3 : /\ MAX_NEIGHBOURS(n) = 3^n - 1
                       /\ MAX_NEIGHBOURS(n) = MaxNeighboursClaimed[n]
    /\ (N \in 1..3 /\ ret.tag = "TooHighRule") =>
           ret.max = MaxNeighboursClaimed[N]
    /\ (N \in 1..3 /\ call.op \in {"new"} \cup RuleSetters
                   /\ 0 \notin call.birth) =>
           (ret.tag = "Ok" <=>
               \A v \in Submitted : v <= MaxNeighboursClaimed[N])

\* N = 1: the rule 2 is stored, and 3 was refused with the maximum 2.
C18_Witness ==
    /\ N = 1
    /\ status = "ok"
    /\ 2 \in birth_rules
    /\ ret = TooHighRule(3, 2)

(***************************************************************************)
(* C19: a successful construction yields a state with age 0, exactly the   *)
(* supplied birth rules, exactly the supplied survival rules and exactly   *)
(* the supplied alive set (empty for new); conways_game_of_life yields     *)
(* the 2-dimensional state with birth {3}, survival {2, 3} and no alive    *)
(* cells, equal in every field to the state new({3}, {2, 3}) gives.        *)
(* Checked under Spec.                                                     *)
(***************************************************************************)
\* The fields of the Life that new(birth, survival) gives.
ManuallyConstructed(birth, survival) ==
    <<0, birth, survival, {}, {}, EmptyTally>>

C19_ConstructionStoresArguments ==
    /\ (call.op = "new" /\ ret.tag = "Ok") =>
          /\ status = "ok"
          /\ age = 0
          /\ birth_rules = call.birth
          /\ survival_rules = call.survival
          /\ alive_cells = call.cells
          /\ call.cells = {} =>
                life = ManuallyConstructed(call.birth, call.survival)
    /\ call.op = "conways_game_of_life" =>
          /\ N = 2
          /\ status = "ok"
          /\ birth_rules = {3}
          /\ survival_rules = {2, 3}
          /\ alive_cells = {}
          /\ life = ManuallyConstructed({3}, {2, 3})

\* A construction with birth rules, survival rules and two alive cells.
C19_Witness ==
    /\ call.op = "new"
    /\ ret.tag = "Ok"
    /\ birth_rules # {}
    /\ survival_rules # {}
    /\ Cardinality(alive_cells) = 2

(***************************************************************************)
(* Claims about the neighbour offsets.                                     *)
(***************************************************************************)
\* The dimensions the enumeration is examined for.
DeltasDims == 1..3

\* The vectors of {-1, 0, 1}^n other than the zero vector.
MooreOffsets(n) == [1..n -> {-1, 0, 1}] \ {Origin(n)}

\* The iterator of deltas() ends after 3^n vectors, and what is left of
\* them after the filter is each Moore offset once.
DeltasEnumerateOffsets ==
    \A n \in DeltasDims :
        /\ Len(FromFn(0, InitialDeltas(n), n)) = 3^n
        /\ Len(Deltas(n)) = 3^n - 1
        /\ Range(Deltas(n)) = MooreOffsets(n)
        /\ Cardinality(Range(Deltas(n))) = Len(Deltas(n))
        /\ Origin(n) \notin Range(Deltas(n))

\* The number of times the scans of a generation over cells come upon a
\* dead cell, when every cell is scanned with every Moore offset.
DeadSightings(cells, n) ==
    Cardinality({p \in cells \X MooreOffsets(n) :
                    Neighbour(p[1], p[2]) \notin cells})

\* The sum of the counts of a tally.
TallySum(tally) ==
    Cardinality(UNION {{k} \X (1..tally[k]) : k \in DOMAIN tally})

(***************************************************************************)
(* C20: for every N >= 1 the neighbour-offset enumerator built inside      *)
(* next_generation terminates and yields each vector of {-1, 0, 1}^N       *)
(* other than the all-zero vector exactly once (3^N - 1 vectors, no        *)
(* duplicate, no omission, never the zero vector), and it does so afresh   *)
(* for every alive cell scanned within one generation: the tally a         *)
(* returned call leaves counts every dead neighbour of every scanned       *)
(* cell.  Checked under SpecStep.                                          *)
(***************************************************************************)
C20_OffsetsEnumeratedPerCell ==
    [][/\ DeltasEnumerateOffsets
       /\ GenerationReturned =>
             TallySum(dead_neighbours') = DeadSightings(alive_cells, N)]_vars

\* A returned generation over two cells in two dimensions, with dead
\* neighbours tallied.
C20_Witness ==
    /\ N = 2
    /\ status = "ok"
    /\ calls >= 1
    /\ Cardinality(prev_alive) = 2
    /\ TallySum(dead_neighbours) > 8

(***************************************************************************)
(* C21: after every next_generation call the previous-alive buffer equals  *)
(* exactly the alive set as it was immediately before the call, whatever   *)
(* set_alive_cells, set_cell or toggle_cell made of it since the           *)
(* preceding generation, and nothing of the older previous-alive buffer    *)
(* survives into the new alive set: every cell of the new alive set was    *)
(* alive before the call or has been tallied by this call with a count     *)
(* that is a birth rule.  Checked under Spec.                              *)
(***************************************************************************)
C21_PrevAliveIsAliveBefore ==
    [][calls' = calls + 1 =>
         /\ prev_alive' = alive_cells
         /\ \A c \in alive_cells' :
               \/ c \in alive_cells
               \/ /\ c \in DOMAIN dead_neighbours'
                  /\ dead_neighbours'[c] \in birth_rules]_vars

\* A second generation: the buffer holds the cells the call found alive,
\* none of which is alive afterwards.
C21_Witness ==
    /\ call.op = "next_generation"
    /\ status = "ok"
    /\ calls = 2
    /\ prev_alive # {}
    /\ alive_cells = {}

\* The tally is the one the reference automaton prescribes for the alive
\* set A: its keys are the dead cells with an alive Moore neighbour, and
\* each count is the number of those neighbours.
TallyIsReference(tally, A, n) ==
    /\ \A c \in GridCells(n) :
          (c \in DOMAIN tally) <=> (c \notin A /\ MooreCount(c, A) >= 1)
    /\ \A k \in DOMAIN tally :
          /\ k \in GridCells(n)
          /\ tally[k] = MooreCount(k, A)
          /\ tally[k] \in 1..(3^n - 1)
          /\ k \notin A

(***************************************************************************)
(* C22: after every next_generation call the dead-neighbour tally contains *)
(* an entry for exactly those cells that were dead before the call and     *)
(* have at least one previously-alive Moore neighbour, each entry's count  *)
(* equals that cell's number of previously-alive neighbours (between 1     *)
(* and 3^N - 1), no previously-alive cell is a key, and no count carries   *)
(* over from an earlier generation.  Stated for every call that returns.   *)
(* Checked under SpecStep.                                                 *)
(***************************************************************************)
C22_TallyIsMooreCount ==
    [][GenerationReturned =>
          TallyIsReference(dead_neighbours', alive_cells, N)]_vars

\* The same for alive sets that stay clear of i64::MIN and i64::MAX.
TallyIsMooreCountInRange ==
    [][(GenerationReturned /\ InRange(alive_cells)) =>
          TallyIsReference(dead_neighbours', alive_cells, N)]_vars

(***************************************************************************)
(* C23: during construction the too-high check scans birth rules before    *)
(* survival rules: when the birth rules (without 0) contain a value above  *)
(* 3^N - 1, the value carried by the returned TooHighRule is a birth rule  *)
(* value above the maximum, even if the survival rules also contain        *)
(* too-high values; a survival value is reported only when no birth value  *)
(* is too high.  For N >= 1 a TooHighRule is what such a construction      *)
(* returns.  Checked under Spec.                                           *)
(***************************************************************************)
C23_BirthRulesScannedFirst ==
    (call.op = "new" /\ 0 \notin call.birth) =>
        /\ (N >= 1 /\ TooHighValues(call.birth) # {}) =>
              ret.tag = "TooHighRule"
        /\ (ret.tag = "TooHighRule" /\ TooHighValues(call.birth) # {}) =>
              ret.value \in TooHighValues(call.birth)
        /\ (ret.tag = "TooHighRule" /\ ret.value \notin call.birth) =>
              /\ TooHighValues(call.birth) = {}
              /\ ret.value \in TooHighValues(call.survival)

\* N = 2: the birth rule 10 is reported although the survival rule 9 is
\* too high as well.
C23_Witness ==
    /\ N = 2
    /\ call.op = "new"
    /\ call.birth = {10}
    /\ 9 \in call.survival
    /\ ret = TooHighRule(10, 8)

(***************************************************************************)
(* C24: toggle_cell(c) flips the membership of c and of no other cell:     *)
(* afterwards get_cell(c) is the negation of its previous value and every  *)
(* other cell's state is unchanged; applying toggle_cell(c) twice          *)
(* restores the alive set exactly (toggling c in the state the call        *)
(* leaves gives back the alive set the call found).  Checked under Spec.   *)
(***************************************************************************)
C24_ToggleFlipsOneCell ==
    [][call'.op = "toggle_cell" =>
         \A c \in call'.cells :
            /\ (c \in alive_cells') <=> ~get_cell(c)
            /\ alive_cells' \ {c} = alive_cells \ {c}
            /\ Toggle(alive_cells', c) = alive_cells]_vars

\* toggle_cell made an alive cell dead and left another cell alive.
C24_Witness ==
    /\ call.op = "toggle_cell"
    /\ status = "ok"
    /\ \A c \in call.cells : ~get_cell(c)
    /\ alive_cells # {}

\* Every cell of B is a cell of A or a Moore neighbour of a cell of A.
WithinOneOf(B, A) ==
    \A c \in B : c \in A \/ \E a \in A : MooreAdjacent(c, a)

(***************************************************************************)
(* C25: growth is local: every cell alive after a next_generation call     *)
(* either was alive before the call or is a Moore neighbour (each          *)
(* coordinate differing by at most 1) of a cell that was alive before the  *)
(* call; hence after k generations with no intervening mutation every      *)
(* alive cell lies within Chebyshev distance k of some cell of the         *)
(* starting alive set, and the alive set stays finite.  Stated for every   *)
(* call that returns.  Checked under SpecStep.                             *)
(***************************************************************************)
C25_GrowthIsLocal ==
    [][GenerationReturned => WithinOneOf(alive_cells', alive_cells)]_vars

\* The same for alive sets that stay clear of i64::MIN and i64::MAX.
GrowthIsLocalInRange ==
    [][(GenerationReturned /\ InRange(alive_cells)) =>
          WithinOneOf(alive_cells', alive_cells)]_vars

\* The vectors the alive sets are shifted by.
TranslationOffsets(n) == [1..n -> {-2, 0, 1}] \ {Origin(n)}

\* The cells of A shifted by v are representable and, like the cells of A,
\* clear of i64::MIN and i64::MAX.
StaysInRange(A, v) ==
    /\ InRange(A)
    /\ \A c \in A : \A i \in 1..Len(c) :
          c[i] + v[i] > MinCoord /\ c[i] + v[i] < MaxCoord

(***************************************************************************)
(* C26: next_generation commutes with translation: for every alive set A,  *)
(* offset vector v and valid rules (coordinates staying within range),     *)
(* advancing the set A shifted by v yields the result of advancing A,      *)
(* shifted by v.  Whenever a call returns, a call on the shifted alive     *)
(* set with the same rules returns the shifted result.  Checked under      *)
(* SpecStep.                                                               *)
(***************************************************************************)
C26_CommutesWithTranslation ==
    [][GenerationReturned =>
         \A v \in TranslationOffsets(N) :
            StaysInRange(alive_cells, v) =>
               \A out \in GenerationOutcomes(N, Translate(alive_cells, v),
                                             prev_alive, dead_neighbours,
                                             birth_rules, survival_rules,
                                             overflow_checks) :
                  /\ ~out.panicked
                  /\ out.alive_cells = Translate(alive_cells', v)]_vars

\* A first generation in two dimensions, away from i64::MIN and i64::MAX,
\* in which the alive set grew.
C26_Witness ==
    /\ N = 2
    /\ status = "ok"
    /\ calls = 1
    /\ prev_alive # {}
    /\ InRange(prev_alive)
    /\ Cardinality(alive_cells) > Cardinality(prev_alive)

\* The mutators of the alive set.
CellSetters == {"set_alive_cells", "set_cell", "toggle_cell"}

(***************************************************************************)
(* C27: mutators other than next_generation touch only their own target:   *)
(* a successful set_birth_rules changes only the birth rules and a         *)
(* successful set_survival_rules only the survival rules (each validates   *)
(* only the set being changed, whatever the other set is), and             *)
(* set_alive_cells, set_cell and toggle_cell change only the alive set;    *)
(* none of them changes age or the previous-alive buffer, so               *)
(* changed_cells afterwards compares the mutated alive set with the set    *)
(* that was alive before the last generation.  Checked under Spec.         *)
(***************************************************************************)
C27_MutatorsTouchOwnTarget ==
    [][/\ call'.op = "set_birth_rules" =>
             /\ ret'.tag = "Ok" <=> (/\ 0 \notin call'.birth
                                     /\ TooHighValues(call'.birth) = {})
             /\ ret'.tag = "Ok" => birth_rules' = call'.birth
             /\ UNCHANGED <<age, survival_rules, alive_cells, prev_alive,
                            dead_neighbours>>
       /\ call'.op = "set_survival_rules" =>
             /\ ret'.tag = "Ok" <=> TooHighValues(call'.survival) = {}
             /\ ret'.tag = "Ok" => survival_rules' = call'.survival
             /\ UNCHANGED <<age, birth_rules, alive_cells, prev_alive,
                            dead_neighbours>>
       /\ call'.op \in CellSetters =>
             /\ UNCHANGED <<age, birth_rules, survival_rules, prev_alive,
                            dead_neighbours>>
             /\ Range(SymmetricDifference(prev_alive', alive_cells')) =
                   (prev_alive \ alive_cells') \cup
                   (alive_cells' \ prev_alive)]_vars

\* set_alive_cells on a Life that has run a generation and holds a
\* previous-alive buffer and a tally.
C27_Witness ==
    /\ call.op = "set_alive_cells"
    /\ call.cells # {}
    /\ age > 0
    /\ prev_alive # {}
    /\ alive_cells # prev_alive
    /\ dead_neighbours # EmptyTally

=============================================================================
